---------------------------- MODULE Spec2Model ----------------------------
(***************************************************************************)
(* Model of scripts/rename-scope.js: the package-scope renaming tool.      *)
(*                                                                         *)
(* JavaScript strings are modelled as sequences of one-character strings,  *)
(* so that trimming, case folding, the scope-name pattern, the reference   *)
(* pattern and the prefix substitution are computed character by           *)
(* character, as the script computes them.                                 *)
(***************************************************************************)
EXTENDS Naturals, Sequences, FiniteSets

(***************************************************************************)
(* Characters and string helpers                                           *)
(***************************************************************************)
LowerChars ==
  <<"a", "b", "c", "d", "e", "f", "g", "h", "i", "j", "k", "l", "m",
    "n", "o", "p", "q", "r", "s", "t", "u", "v", "w", "x", "y", "z">>

UpperChars ==
  <<"A", "B", "C", "D", "E", "F", "G", "H", "I", "J", "K", "L", "M",
    "N", "O", "P", "Q", "R", "S", "T", "U", "V", "W", "X", "Y", "Z">>

DigitChars == {"0", "1", "2", "3", "4", "5", "6", "7", "8", "9"}

Range(s) == {s[i] : i \in 1..Len(s)}

\* [a-z0-9], the first and last character class of the scope-name pattern
IsLowerAlnum(c) == c \in Range(LowerChars) \cup DigitChars

\* [\w-] of the reference pattern: letters, digits, underscore, hyphen
IsWordOrHyphen(c) ==
  c \in Range(LowerChars) \cup Range(UpperChars) \cup DigitChars \cup {"_", "-"}

\* white space removed by String.prototype.trim
IsSpace(c) == c \in {" ", "\t", "\n", "\r"}

\* String.prototype.toLowerCase on one character
ToLowerChar(c) ==
  IF \E i \in 1..Len(UpperChars) : UpperChars[i] = c
    THEN LowerChars[CHOOSE i \in 1..Len(UpperChars) : UpperChars[i] = c]
    ELSE c

ToLowerCase(s) == [i \in 1..Len(s) |-> ToLowerChar(s[i])]

RECURSIVE TrimStart(_)
TrimStart(s) ==
  IF s # <<>> /\ IsSpace(Head(s)) THEN TrimStart(Tail(s)) ELSE s

RECURSIVE TrimEnd(_)
TrimEnd(s) ==
  IF s # <<>> /\ IsSpace(s[Len(s)])
    THEN TrimEnd(SubSeq(s, 1, Len(s) - 1))
    ELSE s

\* String.prototype.trim
Trim(s) == TrimEnd(TrimStart(s))

\* whether the literal p occurs in s at position i
OccursAt(s, i, p) ==
  /\ i + Len(p) - 1 <= Len(s)
  /\ SubSeq(s, i, i + Len(p) - 1) = p

(***************************************************************************)
(* Constants of the script                                                 *)
(***************************************************************************)
\* the literal '@ordinarysh/' of both regular expressions
OldPrefix == <<"@", "o", "r", "d", "i", "n", "a", "r", "y", "s", "h", "/">>

\* the literal 'ordinarysh' the resolved scope is compared with
SourceScope == <<"o", "r", "d", "i", "n", "a", "r", "y", "s", "h">>

FlagCheck == <<"-", "-", "c", "h", "e", "c", "k">>
FlagDryRun == <<"-", "-", "d", "r", "y", "-", "r", "u", "n">>
FlagScope == <<"-", "-", "s", "c", "o", "p", "e">>

\* A nullable JavaScript value: <<>> is null / undefined, <<v>> is the value v
None == <<>>
Some(v) == <<v>>

(***************************************************************************)
(* Pure functions of the script                                            *)
(***************************************************************************)
\* /^[a-z0-9]([a-z0-9-]*[a-z0-9])?$/.test(scope)
isValidScope(scope) ==
  /\ Len(scope) >= 1
  /\ IsLowerAlnum(scope[1])
  /\ IsLowerAlnum(scope[Len(scope)])
  /\ \A i \in 1..Len(scope) : IsLowerAlnum(scope[i]) \/ scope[i] = "-"

\* end of the greedy run [\w-]* that starts at position i (i - 1 when empty)
RECURSIVE SuffixEnd(_, _)
SuffixEnd(s, i) ==
  IF i <= Len(s) /\ IsWordOrHyphen(s[i]) THEN SuffixEnd(s, i + 1) ELSE i - 1

\* content.match(/@ordinarysh\/[\w-]+/g) || [] : the non-overlapping matches,
\* left to right, scanning from position i
RECURSIVE MatchesFrom(_, _)
MatchesFrom(s, i) ==
  IF i > Len(s) THEN <<>>
  ELSE IF OccursAt(s, i, OldPrefix)
          /\ SuffixEnd(s, i + Len(OldPrefix)) >= i + Len(OldPrefix)
    THEN <<SubSeq(s, i, SuffixEnd(s, i + Len(OldPrefix)))>>
           \o MatchesFrom(s, SuffixEnd(s, i + Len(OldPrefix)) + 1)
    ELSE MatchesFrom(s, i + 1)

MatchAll(content) == MatchesFrom(content, 1)

\* [...new Set(matches)] : first occurrences, in insertion order
RECURSIVE Dedup(_)
Dedup(seq) ==
  IF seq = <<>> THEN <<>>
  ELSE LET init == Dedup(SubSeq(seq, 1, Len(seq) - 1))
           last == seq[Len(seq)]
       IN IF last \in Range(init) THEN init ELSE Append(init, last)

\* !content for a string: the empty string is falsy
Falsy(content) == content = <<>>

findReferences(content) ==
  IF Falsy(content) THEN <<>> ELSE Dedup(MatchAll(content))

countFileReferences(content) ==
  IF Falsy(content) THEN 0 ELSE Len(MatchAll(content))

\* findings.reduce((sum, f) => sum + f.references.length, 0)
RECURSIVE countReferences(_)
countReferences(found) ==
  IF found = <<>> THEN 0
  ELSE countReferences(SubSeq(found, 1, Len(found) - 1))
         + Len(found[Len(found)].references)

\* the count printed after each file of the preview report
PreviewFileCounts(found) ==
  [i \in 1..Len(found) |-> countFileReferences(found[i].content)]

\* content.replace(/@ordinarysh\//g, `@${newScope}/`) scanning from position i
RECURSIVE ReplaceFrom(_, _, _)
ReplaceFrom(s, i, scope) ==
  IF i > Len(s) THEN <<>>
  ELSE IF OccursAt(s, i, OldPrefix)
    THEN (<<"@">> \o scope \o <<"/">>) \o ReplaceFrom(s, i + Len(OldPrefix), scope)
    ELSE <<s[i]>> \o ReplaceFrom(s, i + 1, scope)

\* Mutant: the pattern lacks the g flag, only the first occurrence is replaced.
RECURSIVE ReplaceFirstFrom(_, _, _)
ReplaceFirstFrom(s, i, scope) ==
  IF i > Len(s) THEN <<>>
  ELSE IF OccursAt(s, i, OldPrefix)
    THEN (<<"@">> \o scope \o <<"/">>) \o SubSeq(s, i + Len(OldPrefix), Len(s))
    ELSE <<s[i]>> \o ReplaceFirstFrom(s, i + 1, scope)

replaceReferences_FirstOnly(content, scope) ==
  IF Falsy(content) THEN content ELSE ReplaceFirstFrom(content, 1, scope)

\* Mutant: the pattern of the scan is used, the package name after the prefix
\* is swallowed by the replacement.
RECURSIVE ReplaceWholeFrom(_, _, _)
ReplaceWholeFrom(s, i, scope) ==
  IF i > Len(s) THEN <<>>
  ELSE IF OccursAt(s, i, OldPrefix)
          /\ SuffixEnd(s, i + Len(OldPrefix)) >= i + Len(OldPrefix)
    THEN (<<"@">> \o scope \o <<"/">>)
           \o ReplaceWholeFrom(s, SuffixEnd(s, i + Len(OldPrefix)) + 1, scope)
    ELSE <<s[i]>> \o ReplaceWholeFrom(s, i + 1, scope)

replaceReferences_WholeMatch(content, scope) ==
  IF Falsy(content) THEN content ELSE ReplaceWholeFrom(content, 1, scope)

replaceReferences(content, scope) ==
  IF Falsy(content) THEN content ELSE ReplaceFrom(content, 1, scope)

\* content.split('\n'): the lines of s from position i on, cur being the part
\* of the current line already passed
RECURSIVE SplitFrom(_, _, _)
SplitFrom(s, i, cur) ==
  IF i > Len(s) THEN <<cur>>
  ELSE IF s[i] = "\n"
    THEN <<cur>> \o SplitFrom(s, i + 1, <<>>)
    ELSE SplitFrom(s, i + 1, Append(cur, s[i]))

SplitLines(s) == SplitFrom(s, 1, <<>>)

\* lines[i] of a JavaScript array: undefined (None) past its end
LineAt(lines, i) == IF i <= Len(lines) THEN Some(lines[i]) ELSE None

\* the loop over oldLines of the diff preview: the pairs of lines printed,
\* oldLines[i] !== newLines[i], from index i on
RECURSIVE DiffFrom(_, _, _)
DiffFrom(oldLines, newLines, i) ==
  IF i > Len(oldLines) THEN <<>>
  ELSE IF Some(oldLines[i]) # LineAt(newLines, i)
    THEN <<[old |-> oldLines[i], new |-> LineAt(newLines, i)]>>
           \o DiffFrom(oldLines, newLines, i + 1)
    ELSE DiffFrom(oldLines, newLines, i + 1)

\* the lines the diff preview prints for one finding
DiffPreview(content, scope) ==
  DiffFrom(SplitLines(content), SplitLines(replaceReferences(content, scope)), 1)

(***************************************************************************)
(* File discovery                                                          *)
(***************************************************************************)
\* A relative path: its directories, and its file name split at the dots
\* (next.config.ts is <<"next", "config", "ts">>).
MkPath(dirs, name) == [dirs |-> dirs, name |-> name]

\* A glob 'root/**/file': literal is TRUE for a file name given in full
\* (package.json), FALSE for '*.suffix'.
MkGlob(root, literal, parts) == [root |-> root, literal |-> literal, parts |-> parts]

globPatterns ==
  << MkGlob("apps", TRUE, <<"package", "json">>),
     MkGlob("apps", TRUE, <<"tsconfig", "json">>),
     MkGlob("apps", FALSE, <<"config", "js">>),
     MkGlob("apps", FALSE, <<"config", "mjs">>),
     MkGlob("apps", FALSE, <<"config", "ts">>),
     MkGlob("apps", FALSE, <<"tsx">>),
     MkGlob("apps", FALSE, <<"ts">>),
     MkGlob("packages", TRUE, <<"package", "json">>),
     MkGlob("packages", TRUE, <<"tsconfig", "json">>),
     MkGlob("packages", FALSE, <<"config", "js">>),
     MkGlob("packages", FALSE, <<"config", "mjs">>),
     MkGlob("packages", FALSE, <<"mjs">>) >>

\* ignore: ['**/node_modules/**', '**/.next/**', '**/dist/**']
IgnoredDirs == {"node_modules", ".next", "dist"}

\* whether globSync(pattern, {cwd, ignore}) returns the path
GlobMatches(pattern, path) ==
  /\ path.dirs # <<>>
  /\ path.dirs[1] = pattern.root
  /\ Range(path.dirs) \cap IgnoredDirs = {}
  /\ IF pattern.literal
       THEN path.name = pattern.parts
       ELSE /\ Len(path.name) > Len(pattern.parts)
            /\ SubSeq(path.name, Len(path.name) - Len(pattern.parts) + 1,
                      Len(path.name)) = pattern.parts

\* The paths of the modelled repository, in the order a directory walk lists them.
PathApp == MkPath(<<"apps", "web">>, <<"package", "json">>)
PathCfg == MkPath(<<"packages", "ui">>, <<"tailwind", "config", "mjs">>)
PathDep == MkPath(<<"apps", "web", "node_modules", "ui">>, <<"package", "json">>)
AllPaths == <<PathApp, PathCfg, PathDep>>
Paths == Range(AllPaths)

\* Mutant: the matches are pushed onto an array, a file matched by two
\* patterns is listed twice.
RECURSIVE AddMatches_NoDedup(_, _, _, _)
AddMatches_NoDedup(files, pattern, i, disk) ==
  IF i > Len(AllPaths) THEN files
  ELSE IF /\ disk[AllPaths[i]].exists
          /\ GlobMatches(pattern, AllPaths[i])
    THEN AddMatches_NoDedup(Append(files, AllPaths[i]), pattern, i + 1, disk)
    ELSE AddMatches_NoDedup(files, pattern, i + 1, disk)

\* files.add(f) for every match of every pattern; Array.from(files): a Set keeps
\* the insertion order and adds a value once
RECURSIVE AddMatches(_, _, _, _)
AddMatches(files, pattern, i, disk) ==
  IF i > Len(AllPaths) THEN files
  ELSE IF /\ disk[AllPaths[i]].exists
          /\ GlobMatches(pattern, AllPaths[i])
          /\ AllPaths[i] \notin Range(files)
    THEN AddMatches(Append(files, AllPaths[i]), pattern, i + 1, disk)
    ELSE AddMatches(files, pattern, i + 1, disk)

RECURSIVE FilesFrom(_, _, _)
FilesFrom(files, k, disk) ==
  IF k > Len(globPatterns) THEN files
  ELSE FilesFrom(AddMatches(files, globPatterns[k], 1, disk), k + 1, disk)

getFilesToScan(disk) == FilesFrom(<<>>, 1, disk)

(***************************************************************************)
(* Inputs: file contents, command lines, lines typed at the prompts        *)
(***************************************************************************)
\* a@ordinarysh/ui
ContentOneRef ==
  <<"a", "@", "o", "r", "d", "i", "n", "a", "r", "y", "s", "h", "/", "u", "i">>

\* @ordinarysh/ui
\* x @ordinarysh/a-b @ordinarysh/ui
ContentThreeRefs ==
  <<"@", "o", "r", "d", "i", "n", "a", "r", "y", "s", "h", "/", "u", "i", "\n",
    "x", " ", "@", "o", "r", "d", "i", "n", "a", "r", "y", "s", "h", "/", "a",
    "-", "b", " ", "@", "o", "r", "d", "i", "n", "a", "r", "y", "s", "h", "/",
    "u", "i">>

\* "@ordinarysh/ x": the bare prefix, no package name after it
ContentBarePrefix ==
  <<"@", "o", "r", "d", "i", "n", "a", "r", "y", "s", "h", "/", " ", "x">>

\* @other/ui
ContentNoRef == <<"@", "o", "t", "h", "e", "r", "/", "u", "i">>

ContentEmpty == <<>>

\* three lines: the bare prefix, a reference, neither
\* @ordinarysh/ x
\* @ordinarysh/ui
\* y
ContentMixedLines ==
  ContentBarePrefix \o <<"\n">> \o OldPrefix \o <<"u", "i", "\n", "y">>

\* A file on disk: mode "rw" is readable and writable, "r-" read-only (a write
\* throws), "--" unreadable (a read throws an error other than ENOENT).
MkFile(content, mode) == [exists |-> TRUE, content |-> content, mode |-> mode]
Missing == [exists |-> FALSE, content |-> <<>>, mode |-> "rw"]

FileChoices ==
  { Missing,
    MkFile(ContentOneRef, "rw"), MkFile(ContentThreeRefs, "rw"),
    MkFile(ContentBarePrefix, "rw"), MkFile(ContentNoRef, "rw"),
    MkFile(ContentEmpty, "rw"), MkFile(ContentMixedLines, "rw"),
    MkFile(ContentOneRef, "r-"), MkFile(ContentOneRef, "--") }

ScopeMyorg == <<"m", "y", "o", "r", "g">>
ScopeInvalid == <<"I", "n", "v", "a", "l", "i", "d", "_", "S", "c", "o", "p", "e">>
EmptyString == <<>>

\* process.argv.slice(2)
ArgLists ==
  { <<>>,
    <<FlagCheck>>,
    <<FlagDryRun>>,
    <<FlagScope>>,
    <<FlagScope, ScopeMyorg>>,
    <<FlagScope, SourceScope>>,
    <<FlagScope, ScopeInvalid>>,
    <<FlagScope, EmptyString>>,
    <<FlagScope, FlagCheck>>,
    <<FlagCheck, FlagScope, ScopeMyorg>>,
    <<FlagScope, ScopeInvalid, FlagDryRun>>,
    <<FlagDryRun, FlagScope, SourceScope>> }

\* lines typed at the destination-scope prompt
ScopeLines ==
  { <<>>,
    <<" ", " ">>,
    <<" ", "m", "y", "-", "o", "r", "g", " ">>,
    <<"m", "y", "o", "r", "g">>,
    <<"B", "a", "d", "_">>,
    <<"-", "x">>,
    <<"o", "r", "d", "i", "n", "a", "r", "y", "s", "h">> }

\* lines typed at the confirmation prompt
LineEmpty == <<>>
LineBlank == <<" ">>
LineN == <<"n">>
LineNo == <<"N", "o">>
LineY == <<"y">>
LineYes == <<" ", "Y", "E", "S", " ">>
LineMaybe == <<"m", "a", "y", "b", "e">>
LineYy == <<"y", "y">>
ConfirmLines ==
  {LineEmpty, LineBlank, LineN, LineNo, LineY, LineYes, LineMaybe, LineYy}

\* how many times one prompt is asked in a run of the model, and how many
\* changes other processes make to the files during the model's runs
MaxAsk == 2
MaxEnv == 1

\* arguments of replaceReferences called on its own: the contents are the
\* concatenations of at most MaxPieces pieces ('@' followed by 'ordinarysh/'
\* makes an occurrence of the prefix across two pieces)
MaxPieces == 3
ReplacePieces ==
  { OldPrefix,
    <<"@">>,
    <<"o", "r", "d", "i", "n", "a", "r", "y", "s", "h", "/">>,
    <<"u", "i">>,
    <<"\n">> }

PieceSeqs(n) == UNION {[1..k -> ReplacePieces] : k \in 0..n}

RECURSIVE Concat(_)
Concat(seqs) ==
  IF seqs = <<>> THEN <<>> ELSE seqs[1] \o Concat(SubSeq(seqs, 2, Len(seqs)))

ReplaceContents == {Concat(pieces) : pieces \in PieceSeqs(MaxPieces)}

ScopeMyOrg == <<"m", "y", "-", "o", "r", "g">>
ScopeShort == <<"o">>
ScopeLong == <<"o", "r", "d", "i", "n", "a", "r", "y", "s", "h", "-", "2">>
ScopeNested == <<"x", "/", "@", "o", "r", "d", "i", "n", "a", "r", "y", "s", "h">>
ReplaceScopes ==
  {ScopeMyorg, ScopeMyOrg, ScopeShort, ScopeLong, SourceScope, ScopeInvalid, ScopeNested}

(***************************************************************************)
(* State                                                                   *)
(***************************************************************************)
VARIABLES
  args,          \* process.argv.slice(2)
  dryRun,        \* let dryRun
  newScope,      \* let newScope: None or Some(string)
  fs,            \* the files on disk, by path
  pc,            \* where main() stands: start, scan, promptScope, confirm, apply, done
  filesToScan,   \* scanFiles: const filesToScan
  scanned,       \* scanFiles: how many of filesToScan the loop has read
  findings,      \* scanFiles: const findings
  readLog,       \* history: per file read by the scan, "ok" or "enoent"
  updatedCount,  \* applyRenaming: let updatedCount
  confirmed,     \* main: const confirmed, None until promptConfirmation returns
  outcome,       \* the report the run ended with, "running" until then
  exitCode,      \* None until the process exits, then Some(status)
  scopeAsks,     \* history: times the destination-scope question was issued
  confirmAsks,   \* history: times the confirmation question was issued
  confirmInput,  \* history: the lines read by promptConfirmation
  writes,        \* history: the writeFileSync calls that succeeded, in order
  envCount,      \* history: changes made to the files by other processes
  run,           \* history: number of the current invocation
  prevOutcome,   \* history: outcome of the previous invocation
  scopeInput,    \* history: None, or Some(the line promptForScope read last)
  calc           \* a call of replaceReferences on its own: arguments and results

vars ==
  <<args, dryRun, newScope, fs, pc, filesToScan, scanned, findings, readLog,
    updatedCount, confirmed, outcome, exitCode, scopeAsks, confirmAsks, confirmInput, writes,
    envCount, run, prevOutcome, scopeInput, calc>>

\* no call of replaceReferences on its own has been made
CalcIdle ==
  [calls |-> 0, content |-> <<>>, scope |-> <<>>, once |-> <<>>, twice |-> <<>>]

\* Mutant: the --check spelling of the flag is forgotten.
ParseDryRun_DryRunOnly(argv) == FlagDryRun \in Range(argv)

\* args.includes('--dry-run') || args.includes('--check')
ParseDryRun(argv) == FlagDryRun \in Range(argv) \/ FlagCheck \in Range(argv)

\* args.indexOf('--scope'): the first index, 0 for -1
ScopeIndex(argv) ==
  IF FlagScope \in Range(argv)
    THEN CHOOSE i \in 1..Len(argv) :
           /\ argv[i] = FlagScope
           /\ \A j \in 1..(i - 1) : argv[j] # FlagScope
    ELSE 0

\* if (scopeIndex !== -1 && args[scopeIndex + 1]) newScope = args[scopeIndex + 1]
ParseScope(argv) ==
  IF /\ ScopeIndex(argv) # 0
     /\ ScopeIndex(argv) + 1 <= Len(argv)
     /\ ~Falsy(argv[ScopeIndex(argv) + 1])
    THEN Some(argv[ScopeIndex(argv) + 1])
    ELSE None

\* The state of a process that has parsed its command line and is about to
\* call main().
StartRun(argv) ==
  /\ args = argv
  /\ dryRun = ParseDryRun(argv)
  /\ newScope = ParseScope(argv)
  /\ pc = "start"
  /\ filesToScan = <<>>
  /\ scanned = 0
  /\ findings = <<>>
  /\ readLog = <<>>
  /\ updatedCount = 0
  /\ confirmed = None
  /\ outcome = "running"
  /\ exitCode = None
  /\ scopeAsks = 0
  /\ confirmAsks = 0
  /\ confirmInput = <<>>
  /\ writes = <<>>
  /\ scopeInput = None

Init ==
  /\ \E argv \in ArgLists : StartRun(argv)
  /\ fs \in { f \in [Paths -> FileChoices] : f[PathDep] = MkFile(ContentOneRef, "rw") }
  /\ envCount = 0
  /\ run = 1
  /\ prevOutcome = "none"
  /\ calc = CalcIdle

(***************************************************************************)
(* Ends of a run                                                           *)
(***************************************************************************)
\* process.exit(code) after the report named by result
Exit(result, code) ==
  /\ pc' = "done"
  /\ outcome' = result
  /\ exitCode' = Some(code)

\* Mutant: the catch handler reports the error but exits with status 0.
Throw_ExitZero == Exit("error", 0)

\* main().catch: console.error(err.message); process.exit(1)
Throw == Exit("error", 1)

(***************************************************************************)
(* scanFiles                                                               *)
(***************************************************************************)
\* main: const findings = scanFiles(), up to the loop over filesToScan
Discover ==
  /\ pc = "start"
  /\ pc' = "scan"
  /\ filesToScan' = getFilesToScan(fs)
  /\ scanned' = 0
  /\ findings' = <<>>
  /\ UNCHANGED <<args, dryRun, newScope, fs, readLog, updatedCount, confirmed, outcome,
                 exitCode, scopeAsks, confirmAsks, confirmInput, writes, envCount,
                 run, prevOutcome, scopeInput, calc>>

\* Mutant: ENOENT is thrown again like every other error.
readFileContent_NoEnoent(file) ==
  IF ~file.exists \/ file.mode = "--" THEN [threw |-> TRUE, value |-> None]
  ELSE [threw |-> FALSE, value |-> Some(file.content)]

\* readFileContent: null for ENOENT, any other error is thrown again
readFileContent(file) ==
  IF ~file.exists THEN [threw |-> FALSE, value |-> None]
  ELSE IF file.mode = "--" THEN [threw |-> TRUE, value |-> None]
  ELSE [threw |-> FALSE, value |-> Some(file.content)]

\* the finding pushed for a file with references
MkFinding(file, content) ==
  [file |-> file, fullPath |-> file, content |-> content,
   references |-> findReferences(content)]

\* one iteration of the loop of scanFiles
ScanStep(file, read) ==
  IF read = None \/ Falsy(read[1]) THEN findings
  ELSE IF Len(findReferences(read[1])) > 0
    THEN Append(findings, MkFinding(file, read[1]))
    ELSE findings

ScanRead ==
  /\ pc = "scan"
  /\ scanned < Len(filesToScan)
  /\ LET file == filesToScan[scanned + 1]
         read == readFileContent(fs[file])
     IN IF read.threw
          THEN /\ Throw
               /\ UNCHANGED <<scanned, findings, readLog>>
          ELSE /\ scanned' = scanned + 1
               /\ findings' = ScanStep(file, read.value)
               /\ readLog' = Append(readLog, IF read.value = None THEN "enoent" ELSE "ok")
               /\ UNCHANGED <<pc, outcome, exitCode>>
  /\ UNCHANGED <<args, dryRun, newScope, fs, filesToScan, updatedCount, confirmed,
                 scopeAsks, confirmAsks, confirmInput, writes, envCount, run,
                 prevOutcome, scopeInput, calc>>

(***************************************************************************)
(* main, from the end of the scan to the first prompt                      *)
(***************************************************************************)
\* Mutant: the scope is not validated before it is used.
Resolve_NoValidation(scope) ==
  IF scope = SourceScope
    THEN Exit("already_named", 0) /\ UNCHANGED confirmAsks
  ELSE /\ pc' = "confirm"
       /\ confirmAsks' = confirmAsks + 1
       /\ UNCHANGED <<outcome, exitCode>>

\* Mutant: the comparison with the existing scope is missing.
Resolve_NoSameScopeCheck(scope) ==
  IF ~isValidScope(scope)
    THEN Exit("invalid_scope", 1) /\ UNCHANGED confirmAsks
  ELSE /\ pc' = "confirm"
       /\ confirmAsks' = confirmAsks + 1
       /\ UNCHANGED <<outcome, exitCode>>

\* main from "Validate scope" to the first question of promptConfirmation
Resolve(scope) ==
  IF ~isValidScope(scope)
    THEN Exit("invalid_scope", 1) /\ UNCHANGED confirmAsks
  ELSE IF scope = SourceScope
    THEN Exit("already_named", 0) /\ UNCHANGED confirmAsks
  ELSE /\ pc' = "confirm"
       /\ confirmAsks' = confirmAsks + 1
       /\ UNCHANGED <<outcome, exitCode>>

\* Mutant: a scope given on the command line is validated before the findings
\* are looked at.
NoFindingsExit_ValidateFirst ==
  /\ pc = "scan"
  /\ scanned = Len(filesToScan)
  /\ Len(findings) = 0
  /\ IF newScope # None /\ ~isValidScope(newScope[1])
       THEN Exit("invalid_scope", 1)
       ELSE Exit("no_findings", 0)
  /\ UNCHANGED <<args, dryRun, newScope, fs, filesToScan, scanned, findings,
                 readLog, updatedCount, confirmed, scopeAsks, confirmAsks,
                 confirmInput, writes, envCount, run, prevOutcome, scopeInput, calc>>

\* if (findings.length === 0): report "No @ordinarysh references found", exit 0
NoFindingsExit ==
  /\ pc = "scan"
  /\ scanned = Len(filesToScan)
  /\ Len(findings) = 0
  /\ Exit("no_findings", 0)
  /\ UNCHANGED <<args, dryRun, newScope, fs, filesToScan, scanned, findings,
                 readLog, updatedCount, confirmed, scopeAsks, confirmAsks, confirmInput,
                 writes, envCount, run, prevOutcome, scopeInput, calc>>

\* if (dryRun): report the counts, exit 0
PreviewExit ==
  /\ pc = "scan"
  /\ scanned = Len(filesToScan)
  /\ Len(findings) # 0
  /\ dryRun
  /\ Exit("preview", 0)
  /\ UNCHANGED <<args, dryRun, newScope, fs, filesToScan, scanned, findings,
                 readLog, updatedCount, confirmed, scopeAsks, confirmAsks, confirmInput,
                 writes, envCount, run, prevOutcome, scopeInput, calc>>

\* if (!newScope) newScope = await promptForScope(): the first question
AskScope ==
  /\ pc = "scan"
  /\ scanned = Len(filesToScan)
  /\ Len(findings) # 0
  /\ ~dryRun
  /\ newScope = None
  /\ pc' = "promptScope"
  /\ scopeAsks' = scopeAsks + 1
  /\ UNCHANGED <<args, dryRun, newScope, fs, filesToScan, scanned, findings,
                 readLog, updatedCount, confirmed, outcome, exitCode, confirmAsks,
                 confirmInput, writes, envCount, run, prevOutcome, scopeInput, calc>>

\* newScope given on the command line: validate, compare, preview, ask
ResolveCliScope ==
  /\ pc = "scan"
  /\ scanned = Len(filesToScan)
  /\ Len(findings) # 0
  /\ ~dryRun
  /\ newScope # None
  /\ Resolve(newScope[1])
  /\ UNCHANGED <<args, dryRun, newScope, fs, filesToScan, scanned, findings,
                 readLog, updatedCount, confirmed, scopeAsks, confirmInput, writes,
                 envCount, run, prevOutcome, scopeInput, calc>>

(***************************************************************************)
(* promptForScope                                                          *)
(***************************************************************************)
\* Mutant: only the empty answer is asked again, the pattern is not checked.
ScopeAnswerAccepted_NonEmptyOnly(answer) == ~Falsy(answer)

\* whether promptForScope returns the trimmed answer (otherwise it asks again)
ScopeAnswerAccepted(answer) == ~Falsy(answer) /\ isValidScope(answer)

\* one line read by promptForScope, then main up to the next question
ScopeLine(line) ==
  /\ pc = "promptScope"
  /\ scopeInput' = Some(line)
  /\ LET answer == Trim(line)
     IN IF ScopeAnswerAccepted(answer)
          THEN /\ newScope' = Some(answer)
               /\ Resolve(answer)
               /\ UNCHANGED scopeAsks
          ELSE /\ scopeAsks < MaxAsk
               /\ scopeAsks' = scopeAsks + 1
               /\ UNCHANGED <<newScope, pc, outcome, exitCode, confirmAsks>>
  /\ UNCHANGED <<args, dryRun, fs, filesToScan, scanned, findings, readLog, updatedCount,
                 confirmed, confirmInput, writes, envCount, run, prevOutcome, calc>>

\* The same step with the loop of promptForScope as the script has it, with no
\* limit: past MaxAsk questions the history scopeAsks stays at MaxAsk, which
\* then reads "MaxAsk or more".
ScopeLineUncapped(line) ==
  /\ pc = "promptScope"
  /\ scopeInput' = Some(line)
  /\ LET answer == Trim(line)
     IN IF ScopeAnswerAccepted(answer)
          THEN /\ newScope' = Some(answer)
               /\ Resolve(answer)
               /\ UNCHANGED scopeAsks
          ELSE /\ scopeAsks' = IF scopeAsks < MaxAsk THEN scopeAsks + 1 ELSE scopeAsks
               /\ UNCHANGED <<newScope, pc, outcome, exitCode, confirmAsks>>
  /\ UNCHANGED <<args, dryRun, fs, filesToScan, scanned, findings, readLog,
                 updatedCount, confirmed, confirmInput, writes, envCount, run,
                 prevOutcome, calc>>

(***************************************************************************)
(* promptConfirmation                                                      *)
(***************************************************************************)
StrN == <<"n">>
StrNo == <<"n", "o">>
StrY == <<"y">>
StrYes == <<"y", "e", "s">>

\* Mutant: the empty answer defaults to yes.
ConfirmAnswer_EmptyIsYes(line) ==
  LET answer == ToLowerCase(Trim(line))
  IN IF answer = StrN \/ answer = StrNo THEN Some(FALSE)
     ELSE IF answer = <<>> \/ answer = StrY \/ answer = StrYes THEN Some(TRUE)
     ELSE None

\* Mutant: the answer is compared without case folding.
ConfirmAnswer_NoFold(line) ==
  LET answer == Trim(line)
  IN IF answer = <<>> \/ answer = StrN \/ answer = StrNo THEN Some(FALSE)
     ELSE IF answer = StrY \/ answer = StrYes THEN Some(TRUE)
     ELSE None

\* what promptConfirmation does with one line: Some(TRUE), Some(FALSE), or None
\* when it asks again
ConfirmAnswer(line) ==
  LET answer == ToLowerCase(Trim(line))
  IN IF answer = <<>> \/ answer = StrN \/ answer = StrNo THEN Some(FALSE)
     ELSE IF answer = StrY \/ answer = StrYes THEN Some(TRUE)
     ELSE None

\* one line read by promptConfirmation, then main up to applyRenaming
ConfirmLine(line) ==
  /\ pc = "confirm"
  /\ confirmInput' = Append(confirmInput, line)
  /\ LET result == ConfirmAnswer(line)
     IN IF result = None
          THEN /\ confirmAsks < MaxAsk
               /\ confirmAsks' = confirmAsks + 1
               /\ UNCHANGED <<confirmed, pc, outcome, exitCode>>
        ELSE IF result = Some(FALSE)
          THEN /\ confirmed' = result
               /\ Exit("cancelled", 0)
               /\ UNCHANGED confirmAsks
        ELSE /\ confirmed' = result
             /\ pc' = "apply"
             /\ UNCHANGED <<confirmAsks, outcome, exitCode>>
  /\ UNCHANGED <<args, dryRun, newScope, fs, filesToScan, scanned, findings,
                 readLog, updatedCount, scopeAsks, writes, envCount, run, prevOutcome, scopeInput, calc>>

(***************************************************************************)
(* applyRenaming                                                           *)
(***************************************************************************)
\* fs.writeFileSync succeeds on a writable file and creates a missing one
Writable(file) == ~file.exists \/ file.mode = "rw"

\* Mutant: a failed write is swallowed and the loop goes on.
writeFileContent_SwallowError(file) ==
  IF dryRun THEN "skip"
  ELSE IF Writable(file) THEN "write"
  ELSE "skip"

\* writeFileContent: "skip" in dry-run mode, "throw" when the write fails
writeFileContent(file) ==
  IF dryRun THEN "skip"
  ELSE IF Writable(file) THEN "write"
  ELSE "throw"

\* Mutant: the file is read again at write time and that content is rewritten.
ApplyWrite_RereadsFile ==
  /\ pc = "apply"
  /\ updatedCount < Len(findings)
  /\ LET finding == findings[updatedCount + 1]
         newContent == replaceReferences(fs[finding.fullPath].content, newScope[1])
         effect == writeFileContent(fs[finding.fullPath])
     IN IF effect = "throw"
          THEN /\ Throw
               /\ UNCHANGED <<fs, writes, updatedCount>>
          ELSE /\ updatedCount' = updatedCount + 1
               /\ IF effect = "write"
                    THEN /\ fs' = [fs EXCEPT ![finding.fullPath] = MkFile(newContent, "rw")]
                         /\ writes' = Append(writes, [path |-> finding.fullPath,
                                                      content |-> newContent])
                    ELSE UNCHANGED <<fs, writes>>
               /\ UNCHANGED <<pc, outcome, exitCode>>
  /\ UNCHANGED <<args, dryRun, newScope, filesToScan, scanned, findings, readLog, confirmed,
                 scopeAsks, confirmAsks, confirmInput, envCount, run, prevOutcome, scopeInput, calc>>

\* one iteration of the loop of applyRenaming
ApplyWrite ==
  /\ pc = "apply"
  /\ updatedCount < Len(findings)
  /\ LET finding == findings[updatedCount + 1]
         newContent == replaceReferences(finding.content, newScope[1])
         effect == writeFileContent(fs[finding.fullPath])
     IN IF effect = "throw"
          THEN /\ Throw
               /\ UNCHANGED <<fs, writes, updatedCount>>
          ELSE /\ updatedCount' = updatedCount + 1
               /\ IF effect = "write"
                    THEN /\ fs' = [fs EXCEPT ![finding.fullPath] = MkFile(newContent, "rw")]
                         /\ writes' = Append(writes, [path |-> finding.fullPath,
                                                      content |-> newContent])
                    ELSE UNCHANGED <<fs, writes>>
               /\ UNCHANGED <<pc, outcome, exitCode>>
  /\ UNCHANGED <<args, dryRun, newScope, filesToScan, scanned, findings, readLog, confirmed,
                 scopeAsks, confirmAsks, confirmInput, envCount, run, prevOutcome, scopeInput, calc>>

\* return updatedCount; the success report; main returns and the process ends
ApplyDone ==
  /\ pc = "apply"
  /\ updatedCount = Len(findings)
  /\ Exit("applied", 0)
  /\ UNCHANGED <<args, dryRun, newScope, fs, filesToScan, scanned, findings,
                 readLog, updatedCount, confirmed, scopeAsks, confirmAsks, confirmInput,
                 writes, envCount, run, prevOutcome, scopeInput, calc>>

(***************************************************************************)
(* Other processes                                                         *)
(***************************************************************************)
Running == pc \in {"scan", "promptScope", "confirm", "apply"}

\* a discovered file is deleted while the run is under way
EnvDelete(path) ==
  /\ Running
  /\ envCount < MaxEnv
  /\ path \in Range(filesToScan)
  /\ fs[path].exists
  /\ fs' = [fs EXCEPT ![path] = Missing]
  /\ envCount' = envCount + 1
  /\ UNCHANGED <<args, dryRun, newScope, pc, filesToScan, scanned, findings,
                 readLog, updatedCount, confirmed, outcome, exitCode, scopeAsks,
                 confirmAsks, confirmInput, writes, run, prevOutcome, scopeInput, calc>>

\* a discovered file is rewritten by another process while the run is under way
EnvWrite(path, content) ==
  /\ Running
  /\ envCount < MaxEnv
  /\ path \in Range(filesToScan)
  /\ fs[path].exists
  /\ fs[path].content # content
  /\ fs' = [fs EXCEPT ![path].content = content]
  /\ envCount' = envCount + 1
  /\ UNCHANGED <<args, dryRun, newScope, pc, filesToScan, scanned, findings,
                 readLog, updatedCount, confirmed, outcome, exitCode, scopeAsks,
                 confirmAsks, confirmInput, writes, run, prevOutcome, scopeInput, calc>>

EnvContents == {ContentOneRef, ContentNoRef}

(***************************************************************************)
(* Specifications                                                          *)
(***************************************************************************)
\* the tool is invoked again, with the same command line, after a run has ended
MaxRuns == 2

Rerun ==
  /\ pc = "done"
  /\ run < MaxRuns
  /\ run' = run + 1
  /\ prevOutcome' = outcome
  /\ args' = args
  /\ dryRun' = ParseDryRun(args)
  /\ newScope' = ParseScope(args)
  /\ pc' = "start"
  /\ filesToScan' = <<>>
  /\ scanned' = 0
  /\ findings' = <<>>
  /\ readLog' = <<>>
  /\ updatedCount' = 0
  /\ confirmed' = None
  /\ outcome' = "running"
  /\ exitCode' = None
  /\ scopeAsks' = 0
  /\ confirmAsks' = 0
  /\ confirmInput' = <<>>
  /\ writes' = <<>>
  /\ scopeInput' = None
  /\ UNCHANGED <<fs, envCount, calc>>

(***************************************************************************)
(* Specifications                                                          *)
(***************************************************************************)
\* the steps of the tool
RunNext ==
  \/ Discover
  \/ ScanRead
  \/ NoFindingsExit
  \/ PreviewExit
  \/ AskScope
  \/ ResolveCliScope
  \/ \E line \in ScopeLines : ScopeLine(line)
  \/ \E line \in ConfirmLines : ConfirmLine(line)
  \/ ApplyWrite
  \/ ApplyDone

\* the steps of other processes
EnvNext ==
  \/ \E path \in Paths : EnvDelete(path)
  \/ \E path \in Paths, content \in EnvContents : EnvWrite(path, content)

Next == RunNext \/ EnvNext

\* one invocation, with other processes changing the files under it
Spec == Init /\ [][Next]_vars

NextRerun == RunNext \/ Rerun

\* successive invocations on files that nothing else modifies
SpecRerun == Init /\ [][NextRerun]_vars

\* a line is entered at the destination-scope prompt
EnterScopeLine == \E line \in ScopeLines : ScopeLineUncapped(line)

\* the steps of the tool in an interactive invocation (the dry-run exit and
\* the scope of the command line are out of its reach), the destination-scope
\* prompt without a limit
NextForever ==
  \/ Discover
  \/ ScanRead
  \/ NoFindingsExit
  \/ AskScope
  \/ EnterScopeLine
  \/ \E line \in ConfirmLines : ConfirmLine(line)
  \/ ApplyWrite
  \/ ApplyDone

\* an interactive invocation (no argument) of the tool
InitInteractive ==
  /\ StartRun(<<>>)
  /\ fs \in { f \in [Paths -> {MkFile(ContentOneRef, "rw"), MkFile(ContentThreeRefs, "rw"),
                                MkFile(ContentNoRef, "rw")}] :
                f[PathDep] = MkFile(ContentOneRef, "rw") }
  /\ envCount = 0
  /\ run = 1
  /\ prevOutcome = "none"
  /\ calc = CalcIdle

\* one interactive invocation in which a line is entered whenever the
\* destination-scope prompt waits for one
SpecForever == InitInteractive /\ [][NextForever]_vars /\ WF_vars(EnterScopeLine)

(***************************************************************************)
(* Properties                                                              *)
(***************************************************************************)
\* the command line holds --check or --dry-run
DryRunArg(argv) == FlagCheck \in Range(argv) \/ FlagDryRun \in Range(argv)

\* the command line holds --scope followed by a value
ScopeArgGiven(argv) ==
  \E i \in 1..Len(argv) :
    /\ argv[i] = FlagScope
    /\ \A j \in 1..(i - 1) : argv[j] # FlagScope
    /\ i + 1 <= Len(argv)

\* that value
ScopeArg(argv) ==
  argv[1 + CHOOSE i \in 1..Len(argv) :
             argv[i] = FlagScope /\ \A j \in 1..(i - 1) : argv[j] # FlagScope]

\* the scan has read every discovered file without an error
ScanCompleted == pc # "start" /\ scanned = Len(filesToScan)

WrittenPaths == {writes[i].path : i \in 1..Len(writes)}

\* C1: a run started with --check or --dry-run never writes a file and never
\* issues the destination-scope question or the confirmation question,
\* whatever the findings and the other arguments.
C1_PreviewNeverWritesNorPrompts ==
  DryRunArg(args) =>
    /\ writes = <<>>
    /\ scopeAsks = 0
    /\ confirmAsks = 0
    /\ pc \notin {"promptScope", "confirm", "apply"}

C1_Witness ==
  /\ FlagCheck \in Range(args)
  /\ ScopeArgGiven(args)
  /\ pc = "done"
  /\ outcome = "preview"
  /\ Len(findings) = 2

\* C2: a file is written only after promptConfirmation has returned true in
\* the run; when it returns false (answer n, no or the empty line) the run
\* reports the cancellation and exits 0 without a write.
C2_WriteOnlyAfterConfirmation ==
  /\ (writes # <<>> \/ pc = "apply") => confirmed = Some(TRUE)
  /\ confirmed = Some(FALSE) =>
       /\ pc = "done"
       /\ outcome = "cancelled"
       /\ exitCode = Some(0)
       /\ writes = <<>>
  /\ (confirmInput # <<>>
        /\ confirmInput[Len(confirmInput)] \in {LineEmpty, LineN, LineNo}) =>
       confirmed = Some(FALSE)

C2_Witness ==
  /\ confirmInput = <<LineMaybe, LineEmpty>>
  /\ confirmed = Some(FALSE)
  /\ outcome = "cancelled"
  /\ Len(findings) = 2

\* C3 as stated: whenever --scope is given a value that fails the scope-name
\* pattern, the run ends with exit status 1 and no file is touched.
C3_Original ==
  (pc = "done" /\ ScopeArgGiven(args) /\ ~isValidScope(ScopeArg(args))) =>
    (exitCode = Some(1) /\ writes = <<>>)

\* C3 as amended: when --scope is given a non-empty value that fails the
\* scope-name pattern, no file is touched and no question is asked; the run
\* exits 1 with the validation error when it is not a preview run and its scan
\* ends with at least one finding, and otherwise ends as the scan decides
\* (exit 0 for no findings or preview, exit 1 for a read error).
C3_InvalidCliScopeAborts ==
  (ScopeArgGiven(args) /\ ScopeArg(args) # <<>> /\ ~isValidScope(ScopeArg(args))) =>
    /\ writes = <<>>
    /\ scopeAsks = 0
    /\ confirmAsks = 0
    /\ pc \in {"start", "scan", "done"}
    /\ pc = "done" =>
         \/ outcome = "invalid_scope" /\ exitCode = Some(1)
         \/ outcome = "error" /\ exitCode = Some(1) /\ scanned < Len(filesToScan)
         \/ outcome = "no_findings" /\ exitCode = Some(0) /\ Len(findings) = 0
         \/ outcome = "preview" /\ exitCode = Some(0) /\ DryRunArg(args)
    /\ (pc = "done" /\ ~DryRunArg(args) /\ ScanCompleted /\ Len(findings) > 0) =>
         (outcome = "invalid_scope" /\ exitCode = Some(1))

C3_Witness ==
  /\ args = <<FlagScope, ScopeInvalid>>
  /\ pc = "done"
  /\ outcome = "invalid_scope"
  /\ exitCode = Some(1)
  /\ Len(findings) = 2

\* C4 as stated: a scope supplied with --scope that fails validation never
\* leads to the destination-scope question; the question is issued only when
\* no scope was supplied with --scope.
C4_Original ==
  /\ (ScopeArgGiven(args) /\ ~isValidScope(ScopeArg(args))) => scopeAsks = 0
  /\ scopeAsks > 0 => ~ScopeArgGiven(args)

\* the run has gone past the resolution of the destination scope
ResolveReached ==
  /\ ~dryRun
  /\ ScanCompleted
  /\ Len(findings) > 0
  /\ pc \notin {"scan", "promptScope"}

\* C5: when the resolved destination scope, from --scope or from the prompt,
\* is 'ordinarysh', the run reports that the repository is already named so
\* and exits 0, without the confirmation question and without a write.
C5_SameScopeIsNoOp ==
  (newScope = Some(SourceScope) /\ ResolveReached) =>
    /\ pc = "done"
    /\ outcome = "already_named"
    /\ exitCode = Some(0)
    /\ confirmAsks = 0
    /\ writes = <<>>

C5_Witness ==
  /\ newScope = Some(SourceScope)
  /\ scopeAsks = 2
  /\ outcome = "already_named"
  /\ Len(findings) = 2

\* C6: when the scan ends with zero findings the run exits 0 with the
\* 'no references found' report, whatever the arguments, asks nothing and
\* writes nothing.
C6_NoFindingsExit ==
  (ScanCompleted /\ Len(findings) = 0) =>
    /\ scopeAsks = 0
    /\ confirmAsks = 0
    /\ writes = <<>>
    /\ \/ pc = "scan"
       \/ pc = "done" /\ outcome = "no_findings" /\ exitCode = Some(0)

C6_Witness ==
  /\ args = <<FlagScope, ScopeInvalid, FlagDryRun>>
  /\ Len(filesToScan) = 2
  /\ pc = "done"
  /\ outcome = "no_findings"

\* C7: after a run that was confirmed and whose writes all succeeded, with the
\* files not modified otherwise, the scan of the next run with the same
\* command line matches the reference pattern in no discovered file, the run
\* ends in the 'no references found' exit with status 0, and it writes nothing.
C7_SecondRunFindsNothing ==
  (run > 1 /\ prevOutcome = "applied") =>
    /\ findings = <<>>
    /\ writes = <<>>
    /\ \A path \in Range(filesToScan) :
         fs[path].exists => MatchAll(fs[path].content) = <<>>
    /\ pc = "done" => (outcome = "no_findings" /\ exitCode = Some(0))

C7_Witness ==
  /\ run = 2
  /\ prevOutcome = "applied"
  /\ pc = "done"
  /\ outcome = "no_findings"
  /\ fs[PathApp].exists /\ fs[PathApp].content # ContentThreeRefs
  /\ Len(fs[PathApp].content) = Len(ContentThreeRefs) - 15
  /\ scanned = 2

\* the run ended with an error thrown by applyRenaming
ApplyFailed == pc = "done" /\ outcome = "error" /\ confirmed = Some(TRUE)

\* C8: when the write of the k-th finding fails, the run exits 1 with the
\* error reported, the findings from the k-th on are not written, and the
\* k-1 files written before keep their new content; a run that reports
\* success has written every finding.
C8_WriteFailureAborts ==
  /\ ApplyFailed =>
       /\ exitCode = Some(1)
       /\ Len(writes) = updatedCount
       /\ updatedCount < Len(findings)
       /\ ~Writable(fs[findings[updatedCount + 1].fullPath])
       /\ \A i \in 1..Len(writes) :
            /\ writes[i].path = findings[i].fullPath
            /\ writes[i].content # findings[i].content
            /\ envCount = 0 => fs[writes[i].path].content = writes[i].content
       /\ \A i \in (updatedCount + 1)..Len(findings) :
            /\ findings[i].fullPath \notin WrittenPaths
            /\ envCount = 0 => fs[findings[i].fullPath].content = findings[i].content
  /\ (pc = "done" /\ outcome = "applied") => Len(writes) = Len(findings)

C8_Witness ==
  /\ ApplyFailed
  /\ Len(findings) = 2
  /\ Len(writes) = 1
  /\ fs[findings[1].fullPath].content = writes[1].content

\* the run ended with an error thrown by scanFiles
ScanFailed == pc = "done" /\ outcome = "error" /\ confirmed = None

\* C9: a discovered path that is missing when read yields no finding and the
\* scan goes on; a read that fails otherwise ends the run with exit status 1
\* before any question and any write, and the scan never goes past it.
C9_ReadErrors ==
  /\ Len(readLog) = scanned
  /\ \A i \in 1..Len(readLog) :
       /\ readLog[i] = "enoent" =>
            \A j \in 1..Len(findings) : findings[j].file # filesToScan[i]
       /\ fs[filesToScan[i]].mode # "--"
  /\ ScanFailed =>
       /\ exitCode = Some(1)
       /\ scopeAsks = 0
       /\ confirmAsks = 0
       /\ writes = <<>>
       /\ scanned < Len(filesToScan)
       /\ fs[filesToScan[scanned + 1]].exists
       /\ fs[filesToScan[scanned + 1]].mode = "--"

C9_Witness ==
  /\ readLog = <<"enoent", "ok">>
  /\ Len(findings) = 1
  /\ findings[1].file = filesToScan[2]
  /\ pc = "confirm"

\* the answers the confirmation prompt is specified to give for each line
ExpectedYes == {LineY, LineYes}
ExpectedNo == {LineEmpty, LineBlank, LineN, LineNo}
ExpectedRetry == {LineMaybe, LineYy}

\* C10: promptConfirmation returns true exactly for a line that trims and
\* folds to 'y' or 'yes', false exactly for one that trims and folds to the
\* empty string, 'n' or 'no', and asks again for any other line; its result
\* is decided by the first line that is one of these answers.
C10_ConfirmationAnswers ==
  LET n == Len(confirmInput)
  IN /\ \A i \in 1..(n - 1) : confirmInput[i] \in ExpectedRetry
     /\ confirmed = None =>
          /\ \A i \in 1..n : confirmInput[i] \in ExpectedRetry
          /\ n > 0 => (pc = "confirm" /\ confirmAsks = n + 1)
     /\ confirmed = Some(TRUE) => (n > 0 /\ confirmInput[n] \in ExpectedYes)
     /\ confirmed = Some(FALSE) => (n > 0 /\ confirmInput[n] \in ExpectedNo)

C10_Witness ==
  /\ confirmInput = <<LineYy, LineYes>>
  /\ confirmed = Some(TRUE)
  /\ pc = "apply"

\* the lines of ScopeLines by what the destination-scope prompt is specified
\* to do with them
RejectedScopeLines == {<<>>, <<" ", " ">>, <<"B", "a", "d", "_">>, <<"-", "x">>}
ExpectedValidScopes == {ScopeMyorg, ScopeMyOrg}

\* the run has computed replaceReferences, for the diff preview or for apply
ReplaceComputed ==
  \/ pc \in {"confirm", "apply"}
  \/ pc = "done" /\ outcome \in {"cancelled", "applied"}
  \/ pc = "done" /\ outcome = "error" /\ confirmed = Some(TRUE)

\* C11: whenever the run computes replace, for the diff preview or for apply,
\* the destination scope in use satisfies the scope-name pattern; a string
\* failing it, given with --scope or typed at the prompt, is never used for
\* the substitution.
C11_OnlyValidScopeSubstituted ==
  /\ ReplaceComputed => (newScope # None /\ newScope[1] \in ExpectedValidScopes)
  /\ \A i \in 1..Len(writes) :
       \E scope \in ExpectedValidScopes :
         writes[i].content = replaceReferences(findings[i].content, scope)
  /\ (scopeInput # None /\ scopeInput[1] \in RejectedScopeLines) =>
       (newScope = None /\ ~ReplaceComputed)
  /\ (ScopeArgGiven(args) /\ ScopeArg(args) \in {ScopeInvalid, FlagCheck}) =>
       ~ReplaceComputed

C11_Witness ==
  /\ scopeInput = Some(<<" ", "m", "y", "-", "o", "r", "g", " ">>)
  /\ scopeAsks = 2
  /\ newScope = Some(ScopeMyOrg)
  /\ pc = "apply"
  /\ Len(writes) = 1

\* C12 as stated: the retry loop of the destination-scope prompt is bounded,
\* so a run that waits at the prompt eventually leaves it, whatever lines are
\* entered.
C12_Original == (pc = "promptScope") ~> (pc # "promptScope")

\* C12 as amended: an empty or malformed line at the destination-scope prompt
\* does not end the run but is answered by the question again, and the loop
\* has no limit: the question is asked again for as long as the lines entered
\* are empty or malformed.
C12_RetryWithoutLimit ==
  /\ pc = "promptScope" =>
       /\ outcome = "running"
       /\ exitCode = None
       /\ newScope = None
       /\ scopeAsks >= 1
       /\ scopeInput # None => (scopeInput[1] \in RejectedScopeLines /\ scopeAsks >= 2)
       /\ \A line \in RejectedScopeLines : ENABLED ScopeLineUncapped(line)
  /\ (scopeInput # None /\ scopeInput[1] \in RejectedScopeLines) => pc = "promptScope"

C12_Witness ==
  /\ pc = "promptScope"
  /\ scopeAsks = MaxAsk
  /\ scopeInput = Some(<<"B", "a", "d", "_">>)
  /\ ENABLED ScopeLineUncapped(<<>>)

(***************************************************************************)
(* replaceReferences on its own                                            *)
(***************************************************************************)
\* replaceReferences(content, newScope)
ReplaceCall ==
  /\ calc.calls = 0
  /\ calc' = [calc EXCEPT !.calls = 1,
                          !.once = replaceReferences(calc.content, calc.scope)]
  /\ UNCHANGED <<args, dryRun, newScope, fs, pc, filesToScan, scanned, findings,
                 readLog, updatedCount, confirmed, outcome, exitCode, scopeAsks,
                 confirmAsks, confirmInput, writes, envCount, run, prevOutcome,
                 scopeInput>>

\* replaceReferences(result of the first call, newScope)
ReplaceAgain ==
  /\ calc.calls = 1
  /\ calc' = [calc EXCEPT !.calls = 2,
                          !.twice = replaceReferences(calc.once, calc.scope)]
  /\ UNCHANGED <<args, dryRun, newScope, fs, pc, filesToScan, scanned, findings,
                 readLog, updatedCount, confirmed, outcome, exitCode, scopeAsks,
                 confirmAsks, confirmInput, writes, envCount, run, prevOutcome,
                 scopeInput>>

InitReplace ==
  /\ StartRun(<<>>)
  /\ fs = [p \in Paths |-> Missing]
  /\ envCount = 0
  /\ run = 1
  /\ prevOutcome = "none"
  /\ calc \in { [calls |-> 0, content |-> c, scope |-> s, once |-> <<>>, twice |-> <<>>] :
                  c \in ReplaceContents, s \in ReplaceScopes }

NextReplace == ReplaceCall \/ ReplaceAgain

\* the function replaceReferences applied once and twice to every content and
\* scope of the inputs
SpecReplace == InitReplace /\ [][NextReplace]_vars

(***************************************************************************)
(* C13                                                                     *)
(***************************************************************************)
\* the position of a stage in the order of main: scan, scope resolution (the
\* prompt, when there is one; validation and the diff preview follow it in one
\* step), confirmation, apply, exit
StageRank(stage) ==
  CASE stage = "start" -> 0
    [] stage = "scan" -> 1
    [] stage = "promptScope" -> 2
    [] stage = "confirm" -> 3
    [] stage = "apply" -> 4
    [] stage = "done" -> 5

ExitZeroOutcomes == {"no_findings", "preview", "already_named", "cancelled", "applied"}
ExitOneOutcomes == {"invalid_scope", "error"}

\* a run that is under way has no outcome; a run that ended has one outcome
\* and the exit status that belongs to it
ExitStatusMatchesOutcome ==
  IF pc = "done"
    THEN \/ outcome \in ExitZeroOutcomes /\ exitCode = Some(0)
         \/ outcome \in ExitOneOutcomes /\ exitCode = Some(1)
    ELSE outcome = "running" /\ exitCode = None

\* what a stage finds done when it is entered
StageEntered ==
  /\ pc \in {"promptScope", "confirm", "apply"} =>
       ScanCompleted /\ Len(findings) > 0 /\ ~dryRun
  /\ pc \in {"confirm", "apply"} => newScope # None /\ isValidScope(newScope[1])
  /\ pc = "confirm" => confirmed = None
  /\ pc = "apply" => confirmed = Some(TRUE)
  /\ outcome = "applied" => confirmed = Some(TRUE) /\ Len(writes) = Len(findings)
  /\ outcome = "cancelled" => confirmed = Some(FALSE)

\* a step never goes back to an earlier stage, stays in a stage only at one
\* of the two prompts or inside the loops of scan and apply, and changes
\* nothing of a run that ended
StageStep ==
  /\ StageRank(pc') >= StageRank(pc)
  /\ pc = "start" => pc' \in {"start", "scan"}
  /\ pc = "done" => UNCHANGED <<pc, outcome, exitCode, writes, confirmed, newScope>>

\* C13: the stages of a run are entered in the fixed order scan, scope
\* resolution, diff preview, confirmation, apply and never re-entered, and
\* the run ends in one outcome: exit status 1 for a validation failure or a
\* thrown I/O error, 0 for no-findings, preview, already-named, cancelled and
\* applied.
C13_SequentialStagesAndExitStatus ==
  /\ [](ExitStatusMatchesOutcome /\ StageEntered)
  /\ [][StageStep]_vars

\* a run that was re-asked at both prompts, applied its change and exited
C13_Witness ==
  /\ pc = "done"
  /\ outcome = "applied"
  /\ exitCode = Some(0)
  /\ scopeAsks = 2
  /\ confirmAsks = 2
  /\ Len(writes) = 2

(***************************************************************************)
(* C14                                                                     *)
(***************************************************************************)
\* the positions of content where the literal old prefix starts
Occurrences(content) == {i \in 1..Len(content) : OccursAt(content, i, OldPrefix)}

OccurrencesBefore(content, i) == Cardinality({j \in Occurrences(content) : j < i})

\* position i lies inside an occurrence of the old prefix
InsideOccurrence(content, i) ==
  \E j \in Occurrences(content) : j <= i /\ i < j + Len(OldPrefix)

NewPrefix(scope) == <<"@">> \o scope \o <<"/">>

\* where position i of content lies in the result, every occurrence before it
\* having its length changed from that of the old to that of the new prefix
MovedTo(content, scope, i) ==
  (i + OccurrencesBefore(content, i) * Len(NewPrefix(scope)))
    - OccurrencesBefore(content, i) * Len(OldPrefix)

\* result is content with every occurrence of the old prefix replaced by the
\* new one and every other character kept
IsPrefixReplacement(content, scope, result) ==
  /\ Len(result) + Cardinality(Occurrences(content)) * Len(OldPrefix)
       = Len(content) + Cardinality(Occurrences(content)) * Len(NewPrefix(scope))
  /\ \A i \in 1..Len(content) :
       IF i \in Occurrences(content)
         THEN /\ MovedTo(content, scope, i) + Len(NewPrefix(scope)) - 1 <= Len(result)
              /\ SubSeq(result, MovedTo(content, scope, i),
                        MovedTo(content, scope, i) + Len(NewPrefix(scope)) - 1)
                   = NewPrefix(scope)
         ELSE \/ InsideOccurrence(content, i)
              \/ /\ MovedTo(content, scope, i) <= Len(result)
                 /\ result[MovedTo(content, scope, i)] = content[i]
  /\ Occurrences(content) = {} => result = content

\* C14: for every content and every valid destination scope s, replace
\* returns the content with every occurrence of '@ordinarysh/' replaced by
\* '@s/' and every other character, the package name after the prefix
\* included, untouched; content without an occurrence is returned unchanged.
C14_ReplaceRewritesEveryPrefixOnly ==
  (calc.calls >= 1 /\ isValidScope(calc.scope)) =>
    IsPrefixReplacement(calc.content, calc.scope, calc.once)

\* '@ordinarysh/ui@ordinarysh/' rewritten to '@my-org/ui@my-org/'
C14_Witness ==
  /\ calc.calls >= 1
  /\ calc.content = OldPrefix \o <<"u", "i">> \o OldPrefix
  /\ calc.scope = ScopeMyOrg
  /\ calc.once = <<"@", "m", "y", "-", "o", "r", "g", "/", "u", "i",
                   "@", "m", "y", "-", "o", "r", "g", "/">>

(***************************************************************************)
(* C15                                                                     *)
(***************************************************************************)
\* C15: for every content c and every destination scope s,
\* replace(replace(c, s), s) = replace(c, s).
C15_ReplaceIdempotent ==
  (calc.calls = 2 /\ isValidScope(calc.scope)) => calc.twice = calc.once

\* a second call on a result the first call changed
C15_Witness ==
  /\ calc.calls = 2
  /\ calc.scope = ScopeLong
  /\ Cardinality(Occurrences(calc.content)) = 2
  /\ calc.once # calc.content
  /\ calc.twice = calc.once

(***************************************************************************)
(* C16                                                                     *)
(***************************************************************************)
NoDuplicates(seq) == \A i, j \in 1..Len(seq) : seq[i] = seq[j] => i = j

FindingPaths == [i \in 1..Len(findings) |-> findings[i].fullPath]
WritePaths == [i \in 1..Len(writes) |-> writes[i].path]

\* the paths of the discovered files a sequence of paths is drawn from, in
\* the order of the discovery
IsSubsequenceOfScan(paths) ==
  \A i \in 1..Len(paths) : \E k \in 1..Len(filesToScan) :
    /\ filesToScan[k] = paths[i]
    /\ \A j \in 1..(i - 1) : \E l \in 1..(k - 1) : filesToScan[l] = paths[j]

\* C16: discovery returns no path twice, even for a file matched by several
\* glob patterns; the scan reads the discovered files one after the other,
\* each once; a confirmed run in which no write fails writes the file of each
\* finding exactly once, and the count apply returns is the number of
\* findings.
C16_EachFileOnce ==
  /\ NoDuplicates(filesToScan)
  /\ Len(readLog) = scanned
  /\ scanned <= Len(filesToScan)
  /\ NoDuplicates(FindingPaths)
  /\ IsSubsequenceOfScan(FindingPaths)
  /\ NoDuplicates(WritePaths)
  /\ Len(writes) = updatedCount
  /\ WritePaths = SubSeq(FindingPaths, 1, updatedCount)
  /\ outcome = "applied" =>
       /\ updatedCount = Len(findings)
       /\ WritePaths = FindingPaths

\* an applied run with two findings, one of them the file two patterns match
C16_Witness ==
  /\ outcome = "applied"
  /\ filesToScan = <<PathApp, PathCfg>>
  /\ Len(readLog) = 2
  /\ updatedCount = 2
  /\ WritePaths = <<PathApp, PathCfg>>

(***************************************************************************)
(* C17                                                                     *)
(***************************************************************************)
\* C17, as claimed: a step of the run changes only files of its findings,
\* so a discovered file without a match is left as it is, and it neither
\* creates nor deletes a file.
C17_Original ==
  [][envCount' = envCount =>
       \A p \in Paths :
         /\ fs'[p].exists = fs[p].exists
         /\ p \notin Range(FindingPaths) => fs'[p] = fs[p]]_vars

(***************************************************************************)
(* C18                                                                     *)
(***************************************************************************)
ContainsOldPrefix(line) == \E i \in 1..Len(line) : OccursAt(line, i, OldPrefix)

\* the diff preview has been printed and the confirmation question is asked
\* for the first time, no line typed yet
PreviewPrinted == pc = "confirm" /\ confirmAsks = 1 /\ confirmInput = <<>>

\* C18: for every finding and every destination scope that reaches the diff
\* preview, the rewritten content has as many lines as the content read, and
\* the preview prints exactly the lines that contain the old prefix, each
\* with its own rewritten line.
C18_PreviewPairsLines ==
  PreviewPrinted =>
    \A k \in 1..Len(findings) :
      LET content == findings[k].content
          oldLines == SplitLines(content)
          newLines == SplitLines(replaceReferences(content, newScope[1]))
          printed == DiffPreview(content, newScope[1])
      IN /\ Len(newLines) = Len(oldLines)
         /\ [i \in 1..Len(printed) |-> printed[i].old]
              = SelectSeq(oldLines, ContainsOldPrefix)
         /\ \A i \in 1..Len(printed) :
              printed[i].new = Some(replaceReferences(printed[i].old, newScope[1]))
         /\ \A i \in 1..Len(oldLines) :
              newLines[i] = replaceReferences(oldLines[i], newScope[1])

\* the preview of the three-line file prints its first two lines
C18_Witness ==
  /\ PreviewPrinted
  /\ newScope = Some(ScopeMyorg)
  /\ Len(findings) = 1
  /\ findings[1].content = ContentMixedLines
  /\ Len(SplitLines(ContentMixedLines)) = 3
  /\ DiffPreview(findings[1].content, newScope[1])
       = << [old |-> ContentBarePrefix,
             new |-> Some(<<"@", "m", "y", "o", "r", "g", "/", " ", "x">>)],
            [old |-> OldPrefix \o <<"u", "i">>,
             new |-> Some(<<"@", "m", "y", "o", "r", "g", "/", "u", "i">>)] >>

(***************************************************************************)
(* C19                                                                     *)
(***************************************************************************)
RECURSIVE SumOf(_)
SumOf(numbers) ==
  IF numbers = <<>> THEN 0
  ELSE SumOf(SubSeq(numbers, 1, Len(numbers) - 1)) + numbers[Len(numbers)]

\* C19, as claimed: in preview mode the total number of references reported
\* equals the sum of the per-file counts reported for the findings.
C19_Original ==
  outcome = "preview" => countReferences(findings) = SumOf(PreviewFileCounts(findings))

(***************************************************************************)
(* C20                                                                     *)
(***************************************************************************)
\* every write of the run holds replace applied to the content the scan read
WritesHoldScannedContent ==
  \A i \in 1..Len(writes) :
    /\ writes[i].path = findings[i].fullPath
    /\ writes[i].content = replaceReferences(findings[i].content, newScope[1])

\* a step that writes leaves that content in the file, whatever the file
\* held before the step
WriteStepOverwrites ==
  writes' # writes =>
    /\ Len(writes') = Len(writes) + 1
    /\ LET written == writes'[Len(writes')]
       IN /\ fs'[written.path].exists
          /\ fs'[written.path].content
               = replaceReferences(findings[Len(writes')].content, newScope[1])

\* C20: apply writes replace applied to the content read during the scan,
\* not to the content of the file at write time; a change another process
\* makes to the file while the run waits at a prompt is overwritten.
C20_ApplyWritesScannedContent ==
  /\ []WritesHoldScannedContent
  /\ [][WriteStepOverwrites]_vars

\* the only discovered file, read by the scan with three references, changed
\* once by another process before the write, holds the rewritten content of
\* the scan
C20_Witness ==
  /\ filesToScan = <<PathApp>>
  /\ Len(findings) = 1
  /\ findings[1].content = ContentThreeRefs
  /\ envCount = 1
  /\ Len(writes) = 1
  /\ newScope = Some(ScopeMyorg)
  /\ fs[PathApp] = MkFile(replaceReferences(ContentThreeRefs, ScopeMyorg), "rw")

=============================================================================
